---- MODULE Spec2Model ----
(***************************************************************************)
(* Model of TweetsGraph (src/src/tweets_graph.py): a hashtag adjacency     *)
(* graph maintained over a rolling time window.  The state is the object's *)
(* four attributes; update_graph and get_graph_avg_degree_of_all_nodes are *)
(* the two public operations.  `tweets` records the stream of tweets       *)
(* passed to update_graph so far and `ret` the value returned by the most  *)
(* recent call.  `raised` is the exception the most recent call ended      *)
(* with ("None" when it returned), `eviction_log` lists, in order, every   *)
(* ledger entry an eviction scan found aged out together with the hashtag  *)
(* sets it retracted for it, and `raw_hashtags` is the hashtag list last   *)
(* passed to the Tweet constructor (src/src/tweet_processor.py).           *)
(***************************************************************************)
EXTENDS Integers, Sequences, FiniteSets, TLC

\* ---------------------------------------------------------------- bounds
MaxTweets == 3          \* number of update_graph calls explored
MaxTime == 3            \* timestamps are drawn from 0..MaxTime
time_window == 1        \* TweetsGraph(time_window=...), scaled down from 60
MaxHashtags == 3        \* raw hashtags passed to one Tweet(...)
MaxHashtagLen == 1      \* characters of one raw hashtag

Hashtags == {"apache", "spark", "storm"}
Timestamps == 0..MaxTime
\* tweet.hashtags of the tweets passed in: no hashtag, a lone hashtag, two
\* overlapping pairs and all three hashtags
HashtagSets == {{}, {"apache"}, {"apache", "spark"}, {"spark", "storm"},
                {"apache", "spark", "storm"}}

VARIABLES graph, unique_timestamp_list,
          dict_of_timestamps_and_list_of_hashtag_sets, tweets, ret,
          raised, eviction_log, raw_hashtags

vars == <<graph, unique_timestamp_list,
          dict_of_timestamps_and_list_of_hashtag_sets, tweets, ret,
          raised, eviction_log, raw_hashtags>>

\* ---------------------------------------------------------------- helpers
EmptyDict == [k \in {} |-> {}]

\* d with key k bound to v (d[k] = v in Python, creating or overwriting)
DictSet(d, k, v) == [x \in (DOMAIN d) \cup {k} |-> IF x = k THEN v ELSE d[x]]

\* del d[k]
DictDel(d, k) == [x \in (DOMAIN d) \ {k} |-> d[x]]

\* itertools.permutations(s, 2): all ordered pairs of distinct members
ProductPairs(s) == s \X s
permutations2(s) == {p \in s \X s : p[1] # p[2]}

\* ------------------------------------------------------- adding the edges
\* body of the loop of update_graph, for one ordered pair (ht1, ht2)
AddPairOverwrite(g, ht1, ht2) == DictSet(g, ht1, {ht2})
AddPair(g, ht1, ht2) ==
    IF ht1 \notin DOMAIN g
    THEN DictSet(g, ht1, {ht2})
    ELSE DictSet(g, ht1, g[ht1] \cup {ht2})

RECURSIVE AddPairs(_, _)
AddPairs(g, pairs) ==
    IF pairs = {} THEN g
    ELSE LET p == CHOOSE q \in pairs : TRUE
         IN  AddPairs(AddPair(g, p[1], p[2]), pairs \ {p})

\* the `if current_hashtags:` block of update_graph
add_hashtags_with_product(g, current_hashtags) ==
    IF current_hashtags # {}
    THEN AddPairs(g, ProductPairs(current_hashtags))
    ELSE g
add_hashtags_to_graph(g, current_hashtags) ==
    IF current_hashtags # {}
    THEN AddPairs(g, permutations2(current_hashtags))
    ELSE g

\* ----------------------------------------------------- removing the edges
\* body of the loop of __remove_hashtags_from_graph, for one ordered pair
RemovePairKeepEmpty(g, ht1, ht2) ==
    IF ht1 \in DOMAIN g
    THEN DictSet(g, ht1, g[ht1] \ {ht2})
    ELSE g
RemovePairDropNode(g, ht1, ht2) ==
    IF ht1 \in DOMAIN g THEN DictDel(g, ht1) ELSE g
RemovePair(g, ht1, ht2) ==
    IF ht1 \in DOMAIN g
    THEN LET removed == DictSet(g, ht1, g[ht1] \ {ht2})
         IN  IF removed[ht1] = {} THEN DictDel(removed, ht1) ELSE removed
    ELSE g

RECURSIVE RemovePairs(_, _)
RemovePairs(g, pairs) ==
    IF pairs = {} THEN g
    ELSE LET p == CHOOSE q \in pairs : TRUE
         IN  RemovePairs(RemovePair(g, p[1], p[2]), pairs \ {p})

remove_hashtags_first_pair(g, old_hashtags) ==
    IF permutations2(old_hashtags) = {} THEN g
    ELSE LET p == CHOOSE q \in permutations2(old_hashtags) : TRUE
         IN  RemovePair(g, p[1], p[2])
remove_hashtags_from_graph(g, old_hashtags) ==
    RemovePairs(g, permutations2(old_hashtags))

\* The guards of the removal loop and of the scan: `if ht1 in self.graph`,
\* `if ht2 in self.graph[ht1]` and `if old_timestamp in self.__dict...`.
NodeInGraph(g, ht1) == ht1 \in DOMAIN g
NeighborUnguarded(g, ht1, ht2) == TRUE
NeighborPresent(g, ht1, ht2) == ht2 \in g[ht1]
HasContributions(d, old_timestamp) == old_timestamp \in DOMAIN d

\* Does the loop body raise on graph g?  self.graph[ht1] raises KeyError for
\* a missing node, set.remove(ht2) raises KeyError for a missing neighbor.
RemovePairRaises(g, ht1, ht2) ==
    IF ~NodeInGraph(g, ht1) THEN FALSE
    ELSE IF ht1 \notin DOMAIN g THEN TRUE
    ELSE IF ~NeighborPresent(g, ht1, ht2) THEN FALSE
    ELSE ht2 \notin g[ht1]

\* Does the removal loop raise, walking the pairs as RemovePairs does?
RECURSIVE RemovePairsRaises(_, _)
RemovePairsRaises(g, pairs) ==
    IF pairs = {} THEN FALSE
    ELSE LET p == CHOOSE q \in pairs : TRUE
         IN  \/ RemovePairRaises(g, p[1], p[2])
             \/ RemovePairsRaises(RemovePair(g, p[1], p[2]), pairs \ {p})

\* `for set_of_old_hashtags in list_of_hashtag_sets: remove...`
RECURSIVE RemoveListOfSets(_, _)
RemoveListOfSets(g, list_of_hashtag_sets) ==
    IF list_of_hashtag_sets = <<>> THEN g
    ELSE RemoveListOfSets(
             remove_hashtags_from_graph(g, Head(list_of_hashtag_sets)),
             Tail(list_of_hashtag_sets))

RECURSIVE RemoveListOfSetsRaises(_, _)
RemoveListOfSetsRaises(g, list_of_hashtag_sets) ==
    IF list_of_hashtag_sets = <<>> THEN FALSE
    ELSE \/ RemovePairsRaises(g, permutations2(Head(list_of_hashtag_sets)))
         \/ RemoveListOfSetsRaises(
                remove_hashtags_from_graph(g, Head(list_of_hashtag_sets)),
                Tail(list_of_hashtag_sets))

\* ------------------------------------------------------ the eviction scan
\* `(current_timestamp - old_timestamp) > self.time_window`
IsAgedOutLate(current_timestamp, old_timestamp) ==
    (current_timestamp - old_timestamp) > time_window + 1
IsAgedOut(current_timestamp, old_timestamp) ==
    (current_timestamp - old_timestamp) > time_window

\* `if next_most_recent_timestamp < current_timestamp`
IsNewerAlways(next_most_recent_timestamp, current_timestamp) == TRUE
IsNewerOrEqual(next_most_recent_timestamp, current_timestamp) ==
    next_most_recent_timestamp <= current_timestamp
IsNewer(next_most_recent_timestamp, current_timestamp) ==
    next_most_recent_timestamp < current_timestamp

\* The `for cnt, old_timestamp in enumerate(...)` loop, from position cnt
\* (1-based) of the list lst the loop iterates over.  Yields the graph, the
\* contribution dict and the ledger as the loop leaves them, the aged-out
\* entries it met (ev) and whether it raised (exc).
RECURSIVE EvictionScan(_, _, _, _, _)
EvictionScan(cnt, lst, g, d, current_timestamp) ==
    IF cnt > Len(lst)
    THEN [g |-> g, d |-> d, l |-> lst,                 \* loop ran off the end
          ev |-> <<>>, exc |-> FALSE]
    ELSE LET old_timestamp == lst[cnt] IN
         IF IsAgedOut(current_timestamp, old_timestamp)
         THEN IF old_timestamp \in DOMAIN d
              THEN LET g2 == RemoveListOfSets(g, d[old_timestamp])
                       d2 == IF d[old_timestamp] = <<>>
                             THEN DictDel(d, old_timestamp)
                             ELSE d
                       rest == EvictionScan(cnt + 1, lst, g2, d2,
                                            current_timestamp)
                   IN  [rest EXCEPT
                          !.ev = <<[timestamp |-> old_timestamp,
                                    sets |-> d[old_timestamp]]>> \o @,
                          !.exc = @ \/ RemoveListOfSetsRaises(
                                           g, d[old_timestamp])]
              ELSE LET rest == EvictionScan(cnt + 1, lst, g, d,
                                            current_timestamp)
                   IN  [rest EXCEPT
                          !.ev = <<[timestamp |-> old_timestamp,
                                    sets |-> <<>>]>> \o @,
                          \* without the guard dict[old_timestamp] raises
                          !.exc = @ \/ HasContributions(d, old_timestamp)]
         ELSE [g |-> g, d |-> d,
               l |-> IF cnt > 1 THEN SubSeq(lst, cnt, Len(lst)) ELSE lst,
               ev |-> <<>>, exc |-> FALSE]

\* __manage_timestamps_and_hashtag_dict
manage_overwriting(d, current_hashtags, current_timestamp) ==
    IF current_hashtags # {}
    THEN DictSet(d, current_timestamp, <<current_hashtags>>)
    ELSE DictSet(d, current_timestamp, <<>>)
manage_timestamps_and_hashtag_dict(d, current_hashtags, current_timestamp) ==
    IF current_timestamp \in DOMAIN d
    THEN IF current_hashtags # {}
         THEN DictSet(d, current_timestamp,
                      Append(d[current_timestamp], current_hashtags))
         ELSE d
    ELSE IF current_hashtags # {}
         THEN DictSet(d, current_timestamp, <<current_hashtags>>)
         ELSE DictSet(d, current_timestamp, <<>>)

\* __update_active_hashtag_nodes, on graph g, ledger lst and dict d
update_active_hashtag_nodes(g, lst, d, current_timestamp, current_hashtags) ==
    LET scanned ==
            IF lst = <<>>
            THEN [g |-> g, d |-> d, l |-> <<current_timestamp>>,
                  ev |-> <<>>, exc |-> FALSE]
            ELSE IF IsNewer(lst[Len(lst)], current_timestamp)
                 THEN LET s == EvictionScan(1, lst, g, d, current_timestamp)
                      IN  [s EXCEPT !.l = Append(s.l, current_timestamp)]
                 ELSE [g |-> g, d |-> d, l |-> lst,
                       ev |-> <<>>, exc |-> FALSE]
    IN  [g |-> scanned.g,
         l |-> scanned.l,
         ev |-> scanned.ev,
         exc |-> scanned.exc,
         d |-> manage_timestamps_and_hashtag_dict(
                   scanned.d, current_hashtags, current_timestamp)]

\* ------------------------------------------------------------ statistic
RECURSIVE SumOfDegrees(_, _)
SumOfDegrees(g, nodes) ==
    IF nodes = {} THEN 0
    ELSE LET n == CHOOSE x \in nodes : TRUE
         IN  Cardinality(g[n]) + SumOfDegrees(g, nodes \ {n})

Digit(d) ==
    CASE d = 0 -> "0" [] d = 1 -> "1" [] d = 2 -> "2" [] d = 3 -> "3"
      [] d = 4 -> "4" [] d = 5 -> "5" [] d = 6 -> "6" [] d = 7 -> "7"
      [] d = 8 -> "8" [] d = 9 -> "9"

RECURSIVE IntToStr(_)
IntToStr(n) == IF n < 10 THEN Digit(n) ELSE IntToStr(n \div 10) \o Digit(n % 10)

\* "{:.2f}".format(round(num / float(den), 2)): the quotient rounded to the
\* nearest hundredth, printed with exactly two fraction digits (a quotient
\* exactly halfway between two hundredths needs at least 16 nodes)
Format2fTruncated(num, den) ==
    LET hundredths == (100 * num) \div den
    IN  IntToStr(hundredths \div 100) \o "."
            \o Digit((hundredths \div 10) % 10) \o Digit(hundredths % 10)
Format2f(num, den) ==
    LET hundredths == (200 * num + den) \div (2 * den)
    IN  IntToStr(hundredths \div 100) \o "."
            \o Digit((hundredths \div 10) % 10) \o Digit(hundredths % 10)

AvgDegreeEmptyShort(g) ==
    IF DOMAIN g # {}
    THEN Format2f(SumOfDegrees(g, DOMAIN g), Cardinality(DOMAIN g))
    ELSE "0.0"
AvgDegree(g) ==
    IF DOMAIN g # {}
    THEN Format2f(SumOfDegrees(g, DOMAIN g), Cardinality(DOMAIN g))
    ELSE Format2f(0, 1)

\* ---------------------------------------------------------------- actions
Init ==
    /\ graph = EmptyDict
    /\ unique_timestamp_list = <<>>
    /\ dict_of_timestamps_and_list_of_hashtag_sets = EmptyDict
    /\ tweets = <<>>
    /\ ret = "None"
    /\ raised = "None"
    /\ eviction_log = <<>>
    /\ raw_hashtags = <<>>

update_graph ==
    /\ Len(tweets) < MaxTweets
    /\ \E current_timestamp \in Timestamps, current_hashtags \in HashtagSets :
         LET added == add_hashtags_to_graph(graph, current_hashtags)
             r == update_active_hashtag_nodes(
                      added, unique_timestamp_list,
                      dict_of_timestamps_and_list_of_hashtag_sets,
                      current_timestamp, current_hashtags)
         IN  /\ graph' = r.g
             /\ unique_timestamp_list' = r.l
             /\ dict_of_timestamps_and_list_of_hashtag_sets' = r.d
             /\ tweets' = Append(tweets, [timestamp |-> current_timestamp,
                                          hashtags |-> current_hashtags])
             /\ ret' = "None"
             /\ raised' = IF r.exc THEN "KeyError" ELSE "None"
             /\ eviction_log' = eviction_log \o r.ev
             /\ UNCHANGED raw_hashtags

get_graph_avg_degree_of_all_nodes ==
    /\ ret' = AvgDegree(graph)
    /\ raised' = "None"
    /\ UNCHANGED <<graph, unique_timestamp_list,
                   dict_of_timestamps_and_list_of_hashtag_sets, tweets,
                   eviction_log, raw_hashtags>>

Next == update_graph \/ get_graph_avg_degree_of_all_nodes

Spec == Init /\ [][Next]_vars

\* ------------------------------------------- the statistic on any graph
\* The statistic is a function of the graph alone.  SpecAvg starts from any
\* simple graph over the six hashtags of the test suite (each is reachable by
\* ingesting its edges as two-hashtag tweets inside one window) and asks for
\* the average degree.
SuiteHashtags == {"apache", "flink", "hadoop", "hbase", "spark", "storm"}

UnorderedPairs == {e \in SUBSET SuiteHashtags : Cardinality(e) = 2}

\* the adjacency dict update_graph builds from the edges in edges
GraphOf(edges) ==
    [a \in UNION edges |-> {b \in SuiteHashtags : {a, b} \in edges}]

InitAvg ==
    /\ \E edges \in SUBSET UnorderedPairs : graph = GraphOf(edges)
    /\ unique_timestamp_list = <<>>
    /\ dict_of_timestamps_and_list_of_hashtag_sets = EmptyDict
    /\ tweets = <<>>
    /\ ret = "None"
    /\ raised = "None"
    /\ eviction_log = <<>>
    /\ raw_hashtags = <<>>

NextAvg == get_graph_avg_degree_of_all_nodes

SpecAvg == InitAvg /\ [][NextAvg]_vars

\* --------------------------------------------------- the Tweet constructor
\* (src/src/tweet_processor.py)  A raw hashtag is a sequence of characters:
\* an upper-case letter, two lower-case letters, a tab and a non-ASCII
\* character.
RawChars == {"S", "s", "a", "\t", "u00e9"}
RawHashtags == UNION {[1..n -> RawChars] : n \in 0..MaxHashtagLen}
RawHashtagLists == UNION {[1..n -> RawHashtags] : n \in 0..MaxHashtags}

IsAscii(c) == c # "u00e9"

\* string.translate(ascii_txt, trans_table) on one character
translate(c) == IF c = "\t" THEN " " ELSE c

\* str.lower() on one character
lower(c) == IF c = "S" THEN "s" ELSE c

\* clean_text(text_to_convert): the non-ASCII characters are dropped, the
\* whitespace escape characters become spaces
clean_text(text_to_convert) ==
    LET ascii_txt == SelectSeq(text_to_convert, IsAscii)
    IN  [i \in DOMAIN ascii_txt |-> translate(ascii_txt[i])]

str_lower(text) == [i \in DOMAIN text |-> lower(text[i])]

\* The three hashtag lines of Tweet.__init__.  The filter `if hashtag` tests
\* the variable the first comprehension leaves bound: the last raw hashtag.
TweetHashtagsAtLeastOne(hashtags) ==
    LET hashtags_cleaned ==
            [i \in DOMAIN hashtags |-> str_lower(clean_text(hashtags[i]))]
        hashtags_to_use ==
            {hashtags_cleaned[i] : i \in {j \in DOMAIN hashtags_cleaned :
                                              hashtags[Len(hashtags)] # <<>>}}
    IN  IF Cardinality(hashtags_to_use) >= 1 THEN hashtags_to_use ELSE {}
TweetHashtags(hashtags) ==
    LET hashtags_cleaned ==
            [i \in DOMAIN hashtags |-> str_lower(clean_text(hashtags[i]))]
        hashtags_to_use ==
            {hashtags_cleaned[i] : i \in {j \in DOMAIN hashtags_cleaned :
                                              hashtags[Len(hashtags)] # <<>>}}
    IN  IF Cardinality(hashtags_to_use) >= 2 THEN hashtags_to_use ELSE {}

\* Tweet(created_at, hashtags), created_at naming the epoch second 0; one
\* tweet is constructed per behaviour
Tweet ==
    /\ tweets = <<>>
    /\ \E hashtags \in RawHashtagLists :
        /\ raw_hashtags' = hashtags
        /\ tweets' = <<[timestamp |-> 0, hashtags |-> TweetHashtags(hashtags)]>>
        /\ UNCHANGED <<graph, unique_timestamp_list,
                       dict_of_timestamps_and_list_of_hashtag_sets, ret,
                       raised, eviction_log>>

NextTweet == Tweet

SpecTweet == Init /\ [][NextTweet]_vars

\* ------------------------------------------------- vocabulary of the claims
Connected(a, b) == a \in DOMAIN graph /\ b \in graph[a]

\* the timestamps were passed to update_graph in non-decreasing order
NonDecreasing ==
    \A i \in 1..(Len(tweets) - 1) : tweets[i].timestamp <= tweets[i + 1].timestamp

newest_timestamp == tweets[Len(tweets)].timestamp

InWindow(t) == newest_timestamp - t <= time_window

\* the most recent operation was an update_graph call
AfterUpdate == tweets # <<>> /\ ret = "None"
LastTweet == tweets[Len(tweets)]

\* C1: window completeness.  After update_graph calls with non-decreasing
\* timestamps, every pair of distinct hashtags of every tweet that is still
\* within time_window of the newest timestamp is connected in the graph.
C1_WindowCompleteness ==
    (tweets # <<>> /\ NonDecreasing) =>
        \A i \in DOMAIN tweets :
            InWindow(tweets[i].timestamp) =>
                \A a \in tweets[i].hashtags, b \in tweets[i].hashtags :
                    a # b => Connected(a, b)

\* C2: window soundness.  With non-decreasing timestamps, once a tweet newer
\* than ti + time_window has been ingested, an edge a-b of a tweet at ti is
\* absent unless another tweet within the window contains both a and b.
C2_NoStaleEdge ==
    (tweets # <<>> /\ NonDecreasing) =>
        \A i \in DOMAIN tweets :
            newest_timestamp > tweets[i].timestamp + time_window =>
                \A a \in tweets[i].hashtags, b \in tweets[i].hashtags :
                    (a # b /\ Connected(a, b)) =>
                        \E j \in DOMAIN tweets :
                            /\ j # i
                            /\ InWindow(tweets[j].timestamp)
                            /\ {a, b} \subseteq tweets[j].hashtags

\* an aged-out tweet's edge has been evicted while other edges are alive
C2_Witness ==
    /\ tweets # <<>> /\ NonDecreasing
    /\ graph # EmptyDict
    /\ \E i \in DOMAIN tweets :
           /\ newest_timestamp > tweets[i].timestamp + time_window
           /\ \E a \in tweets[i].hashtags, b \in tweets[i].hashtags :
                  a # b /\ ~Connected(a, b)

\* C3: ingest postcondition.  When update_graph(timestamp, labels) returns
\* and labels has at least two members, every ordered pair of distinct
\* members is connected, whatever the prior state.
C3_IngestPostcondition ==
    (AfterUpdate /\ Cardinality(LastTweet.hashtags) >= 2) =>
        \A a \in LastTweet.hashtags, b \in LastTweet.hashtags :
            a # b => Connected(a, b)

\* C4: symmetry.  For every node a and every neighbor b of a, b is a node of
\* the graph and a is a neighbor of b.
C4_Symmetry ==
    \A a \in DOMAIN graph : \A b \in graph[a] :
        b \in DOMAIN graph /\ a \in graph[b]

\* a retraction has removed edges and other edges remain
C4_Witness ==
    /\ graph # EmptyDict
    /\ \E i \in DOMAIN tweets :
           \E a \in tweets[i].hashtags, b \in tweets[i].hashtags :
               a # b /\ ~Connected(a, b)

\* C5: no empty entry.  No node of the graph maps to an empty neighbor set
\* (a node whose last neighbor is retracted is deleted by that retraction).
C5_NoEmptyEntry == \A a \in DOMAIN graph : graph[a] # {}

\* a retraction has removed a node's last neighbor: the node is gone while
\* the graph keeps other nodes
C5_Witness ==
    /\ graph # EmptyDict
    /\ \E i \in DOMAIN tweets :
           \E a \in tweets[i].hashtags :
               Cardinality(tweets[i].hashtags) >= 2 /\ a \notin DOMAIN graph

\* C6: no self-loops.  No node is its own neighbor.
C6_NoSelfLoop == \A a \in DOMAIN graph : a \notin graph[a]

\* a three-hashtag tweet has been ingested: every node has two neighbors
C6_Witness ==
    /\ DOMAIN graph = Hashtags
    /\ \A a \in Hashtags : graph[a] = Hashtags \ {a}

\* C7: ledger bound.  After an update_graph call whose timestamp is strictly
\* greater than the previous newest ledger entry (it is then the ledger's
\* last entry), every timestamp on the ledger is within time_window of it,
\* so the ledger holds at most time_window + 1 timestamps.
C7_LedgerBound ==
    unique_timestamp_list # <<>> =>
        LET newest == unique_timestamp_list[Len(unique_timestamp_list)] IN
        /\ \A i \in DOMAIN unique_timestamp_list :
               newest - unique_timestamp_list[i] <= time_window
        /\ Len(unique_timestamp_list) <= time_window + 1

\* C8: contribution-map bound.  After non-decreasing ingests every key of
\* the per-timestamp contribution map is within time_window of the newest
\* timestamp (retracted timestamps have no entry left).
C8_ContributionBound ==
    (tweets # <<>> /\ NonDecreasing) =>
        \A t \in DOMAIN dict_of_timestamps_and_list_of_hashtag_sets :
            InWindow(t)

\* the non-empty hashtag sets passed to update_graph with timestamp t, in
\* call order
RECURSIVE ContributionsAt(_, _)
ContributionsAt(t, i) ==
    IF i > Len(tweets) THEN <<>>
    ELSE IF tweets[i].timestamp = t /\ tweets[i].hashtags # {}
         THEN <<tweets[i].hashtags>> \o ContributionsAt(t, i + 1)
         ELSE ContributionsAt(t, i + 1)

\* C9: same-timestamp grouping.  With non-decreasing timestamps, when
\* several calls carried the same timestamp t, the contribution list of t
\* holds the hashtag sets of all of them in call order (none overwritten);
\* the edges of all of them are in the graph as long as no call has carried a
\* timestamp > t + time_window (not retracted earlier, not piecemeal), and
\* once such a call was made none of their edges is left unless a tweet
\* within the window contains the pair.
C9_SameTimestampGrouping ==
    (tweets # <<>> /\ NonDecreasing) =>
        \A t \in Timestamps :
            Len(ContributionsAt(t, 1)) >= 2 =>
                LET list_of_hashtag_sets == ContributionsAt(t, 1) IN
                /\ t \in DOMAIN dict_of_timestamps_and_list_of_hashtag_sets
                /\ dict_of_timestamps_and_list_of_hashtag_sets[t]
                       = list_of_hashtag_sets
                /\ \A k \in DOMAIN list_of_hashtag_sets :
                       \A a \in list_of_hashtag_sets[k],
                          b \in list_of_hashtag_sets[k] :
                           a # b =>
                               IF InWindow(t)
                               THEN Connected(a, b)
                               ELSE Connected(a, b) =>
                                        \E j \in DOMAIN tweets :
                                            /\ InWindow(tweets[j].timestamp)
                                            /\ {a, b} \subseteq tweets[j].hashtags

\* C10: get_graph_avg_degree_of_all_nodes returns "0.00" whenever the graph
\* is empty, and the graph is empty before any tweet, after only tweets with
\* fewer than two hashtags, and after every edge has been evicted.
C10_ZeroWhenEmpty ==
    /\ graph = EmptyDict => AvgDegree(graph) = "0.00"
    /\ (graph = EmptyDict /\ ret # "None") => ret = "0.00"
    /\ (\A i \in DOMAIN tweets : Cardinality(tweets[i].hashtags) < 2)
           => graph = EmptyDict

\* the average degree was asked for after every edge had been evicted
C10_Witness ==
    /\ graph = EmptyDict
    /\ ret = "0.00"
    /\ \E i \in DOMAIN tweets : Cardinality(tweets[i].hashtags) >= 2

\* the neighbor entries of the graph: ordered pairs (a, b) with b in graph[a]
NeighborEntries == {p \in (DOMAIN graph) \X SuiteHashtags : p[2] \in graph[p[1]]}

Abs(x) == IF x < 0 THEN -x ELSE x

\* h hundredths printed with two fraction digits
Hundredths(h) ==
    IntToStr(h \div 100) \o "." \o Digit((h \div 10) % 10) \o Digit(h % 10)

\* C11: for a non-empty graph the value returned is the number of neighbor
\* entries divided by the number of nodes, rounded to the nearest hundredth
\* and printed with exactly two fraction digits: 10 entries over 6 nodes
\* give "1.67", 12 over 6 give "2.00".
C11_AverageDegree ==
    (graph # EmptyDict /\ ret # "None") =>
        LET total == Cardinality(NeighborEntries)
            n == Cardinality(DOMAIN graph)
        IN  /\ \E h \in 0..(100 * n) :
                   /\ 2 * Abs(100 * total - h * n) <= n
                   /\ ret = Hundredths(h)
            /\ (total = 10 /\ n = 6) => ret = "1.67"
            /\ (total = 12 /\ n = 6) => ret = "2.00"
            /\ (total = 2 /\ n = 2) => ret = "1.00"

\* the average of a six-node graph with five edges has been returned
C11_Witness ==
    /\ Cardinality(DOMAIN graph) = 6
    /\ Cardinality(NeighborEntries) = 10
    /\ ret = "1.67"

ConnectedIn(g, a, b) == a \in DOMAIN g /\ b \in g[a]

\* the log entry records the retraction of a set with at least one edge
RetractsEdges(entry) ==
    \E k \in DOMAIN entry.sets : Cardinality(entry.sets[k]) >= 2

\* this step is an update_graph call; NewTweet is the tweet it was given
IsUpdateStep == tweets' # tweets
NewTweet == tweets'[Len(tweets')]

\* C12: an update_graph call with 0 or 1 hashtags creates no edge: every
\* edge in the graph after the call was in it before, and when the call's
\* timestamp does not exceed the newest ledger entry the graph is unchanged.
C12_SmallSetCreatesNoEdge ==
    [][(IsUpdateStep /\ Cardinality(NewTweet.hashtags) <= 1) =>
          /\ \A a \in Hashtags, b \in Hashtags :
                 ConnectedIn(graph', a, b) => ConnectedIn(graph, a, b)
          /\ (/\ unique_timestamp_list # <<>>
              /\ NewTweet.timestamp
                     <= unique_timestamp_list[Len(unique_timestamp_list)])
                 => graph' = graph]_vars

\* a third call with fewer than two hashtags has evicted an older tweet's
\* edges and left other edges in the graph
C12_Witness ==
    /\ AfterUpdate /\ NonDecreasing /\ Len(tweets) = 3
    /\ tweets[2].timestamp - tweets[1].timestamp <= time_window
    /\ Cardinality(LastTweet.hashtags) <= 1
    /\ \E k \in DOMAIN eviction_log : RetractsEdges(eviction_log[k])
    /\ graph # EmptyDict

\* C13: update_graph never raises, for any timestamp (in order or not) and
\* any hashtag set (empty and single-hashtag sets included): retraction does
\* not fail on a node or neighbor that is already absent, nor on a ledger
\* timestamp without a contribution entry.
C13_NeverRaises == raised = "None"

\* a stale ledger entry has been scanned a second time, retracting hashtag
\* sets whose edges were already gone, and the call returned normally
C13_Witness ==
    /\ AfterUpdate /\ raised = "None"
    /\ \E i \in DOMAIN eviction_log, j \in DOMAIN eviction_log :
           /\ i < j
           /\ eviction_log[i].timestamp = eviction_log[j].timestamp
           /\ RetractsEdges(eviction_log[j])

Range(seq) == {seq[i] : i \in DOMAIN seq}

newest_on_ledger == unique_timestamp_list[Len(unique_timestamp_list)]

\* the timestamps of the log entries this step appends to the eviction log
NewlyEvicted ==
    {eviction_log'[k].timestamp :
         k \in (Len(eviction_log) + 1)..Len(eviction_log')}

\* C14 as stated: a tweet ingested with a timestamp older than the newest
\* ledger entry has its hashtag set recorded under a timestamp that is on
\* the ledger (so that a later eviction scan retracts it).
C14_RecordedOnLedger ==
    (/\ AfterUpdate
     /\ LastTweet.timestamp < newest_on_ledger
     /\ LastTweet.hashtags # {}) =>
        \E t \in Range(unique_timestamp_list) :
            /\ t \in DOMAIN dict_of_timestamps_and_list_of_hashtag_sets
            /\ LastTweet.hashtags
                   \in Range(dict_of_timestamps_and_list_of_hashtag_sets[t])

\* C14 amended: a tweet ingested with a timestamp older than the newest
\* ledger entry has its hashtag set appended under its own timestamp, and
\* the call changes neither the ledger nor any other entry and evicts
\* nothing; a timestamp below the newest ledger entry that is not on the
\* ledger never gets onto it and is never visited by an eviction scan.
C14_RecordedUnderOwnTimestamp ==
    [][IsUpdateStep =>
          /\ (/\ unique_timestamp_list # <<>>
              /\ NewTweet.timestamp < newest_on_ledger) =>
                 LET d == dict_of_timestamps_and_list_of_hashtag_sets
                     t == NewTweet.timestamp
                     before == IF t \in DOMAIN d THEN d[t] ELSE <<>>
                     added == IF NewTweet.hashtags # {}
                              THEN <<NewTweet.hashtags>> ELSE <<>>
                 IN  /\ unique_timestamp_list' = unique_timestamp_list
                     /\ eviction_log' = eviction_log
                     /\ DOMAIN d' = DOMAIN d \cup {t}
                     /\ d'[t] = before \o added
                     /\ \A u \in DOMAIN d : u # t => d'[u] = d[u]
          /\ \A t \in Timestamps :
                 (/\ unique_timestamp_list # <<>>
                  /\ t < newest_on_ledger
                  /\ t \notin Range(unique_timestamp_list)) =>
                     /\ t \notin Range(unique_timestamp_list')
                     /\ t \notin NewlyEvicted]_vars

\* an out-of-order tweet's edge is still in the graph after the stream has
\* advanced past its window, and no other tweet mentions the pair
C14_Witness ==
    /\ AfterUpdate
    /\ \E i \in DOMAIN tweets :
           /\ \E j \in 1..(i - 1) : tweets[j].timestamp > tweets[i].timestamp
           /\ tweets[i].timestamp \notin Range(unique_timestamp_list)
           /\ LastTweet.timestamp - tweets[i].timestamp > time_window
           /\ newest_on_ledger = LastTweet.timestamp
           /\ \E a \in tweets[i].hashtags, b \in tweets[i].hashtags :
                  /\ a # b
                  /\ Connected(a, b)
                  /\ \A j \in DOMAIN tweets :
                         j # i => ~({a, b} \subseteq tweets[j].hashtags)

\* the characters a normalized label may hold
NormalChars == {"s", "a", " "}

\* the distinct labels the raw hashtags normalize to
NormalizedLabels ==
    {str_lower(clean_text(raw_hashtags[i])) : i \in DOMAIN raw_hashtags}

\* C15: Tweet.hashtags is either the empty set or a set of at least two
\* distinct normalized (lower-cased, cleaned) labels, and raw hashtags that
\* collapse to fewer than two distinct labels yield the empty set.
C15_NormalizerContract ==
    tweets # <<>> =>
        LET out == tweets[1].hashtags IN
        /\ \/ out = {}
           \/ /\ Cardinality(out) >= 2
              /\ out \subseteq NormalizedLabels
              /\ \A label \in out : Range(label) \subseteq NormalChars
        /\ Cardinality(NormalizedLabels) < 2 => out = {}

\* two raw hashtags that differ only in case collapsed to one label and the
\* tweet got the empty set
C15_Witness ==
    /\ tweets # <<>>
    /\ Len(raw_hashtags) = 2
    /\ raw_hashtags[1] # raw_hashtags[2]
    /\ NormalizedLabels = {<<"s">>}
    /\ tweets[1].hashtags = {}

\* C16: strict eviction boundary.  During an update_graph call with
\* timestamp t (timestamps non-decreasing) that advances the window, a
\* ledger entry e is retracted if and only if t - e > time_window; in any
\* call an entry with t - e = time_window stays on the ledger and the edges
\* of its hashtag sets stay in the graph.
C16_StrictBoundary ==
    [][(IsUpdateStep /\ NonDecreasing') =>
          \A e \in Range(unique_timestamp_list) :
              LET t == NewTweet.timestamp
                  d == dict_of_timestamps_and_list_of_hashtag_sets
              IN  /\ t > newest_on_ledger =>
                         (e \in NewlyEvicted <=> t - e > time_window)
                  /\ t - e = time_window =>
                         /\ e \in Range(unique_timestamp_list')
                         /\ e \in DOMAIN d =>
                                \A k \in DOMAIN d[e] :
                                    \A a \in d[e][k], b \in d[e][k] :
                                        a # b => ConnectedIn(graph', a, b)]_vars

\* C17: an update_graph call whose timestamp is less than or equal to the
\* newest ledger entry leaves the ledger unchanged and runs no eviction: no
\* edge present before the call is removed, and the only edges gained are
\* edges between the call's own hashtags.
C17_NoEvictionWithoutAdvance ==
    [][(/\ IsUpdateStep
        /\ unique_timestamp_list # <<>>
        /\ NewTweet.timestamp <= newest_on_ledger) =>
          /\ unique_timestamp_list' = unique_timestamp_list
          /\ eviction_log' = eviction_log
          /\ \A a \in Hashtags, b \in Hashtags :
                 /\ ConnectedIn(graph, a, b) => ConnectedIn(graph', a, b)
                 /\ (ConnectedIn(graph', a, b) /\ ~ConnectedIn(graph, a, b))
                        => {a, b} \subseteq NewTweet.hashtags]_vars

\* an out-of-order tweet has added its edges next to an older edge that the
\* call left in place
C17_Witness ==
    /\ AfterUpdate /\ Len(tweets) >= 2
    /\ LastTweet.timestamp < newest_on_ledger
    /\ Cardinality(LastTweet.hashtags) >= 2
    /\ \A a \in LastTweet.hashtags, b \in LastTweet.hashtags :
           a # b => Connected(a, b)
    /\ \E a \in Hashtags, b \in Hashtags :
           Connected(a, b) /\ ~({a, b} \subseteq LastTweet.hashtags)

\* the hashtag sets this step's eviction scan retracts
NewlyRetractedSets ==
    UNION {Range(eviction_log'[k].sets) :
               k \in (Len(eviction_log) + 1)..Len(eviction_log')}

\* b is a neighbor of a once the call has inserted its own edges
ConnectedAfterInsert(a, b) ==
    \/ ConnectedIn(graph, a, b)
    \/ (a # b /\ {a, b} \subseteq NewTweet.hashtags)

\* C18: retracting aged-out hashtag sets changes only edges between members
\* of a retracted set: a pair (a, b) with a or b outside every set retracted
\* by the call is connected after the eviction exactly when it was before,
\* and a node is deleted only if it is a member of a retracted set and all
\* its neighbors were retracted with it.
C18_RetractionFrame ==
    [][IsUpdateStep =>
          /\ \A a \in Hashtags, b \in Hashtags :
                 (\A S \in NewlyRetractedSets : a \notin S \/ b \notin S) =>
                     (ConnectedIn(graph', a, b) <=> ConnectedAfterInsert(a, b))
          /\ \A a \in Hashtags :
                 ((\E b \in Hashtags : ConnectedAfterInsert(a, b))
                      /\ a \notin DOMAIN graph') =>
                     /\ \E S \in NewlyRetractedSets : a \in S
                     /\ \A b \in Hashtags :
                            ConnectedAfterInsert(a, b) =>
                                \E S \in NewlyRetractedSets : {a, b} \subseteq S
         ]_vars

\* a set has been retracted: one of its members is gone from the graph,
\* another keeps a neighbor outside the set
C18_Witness ==
    /\ AfterUpdate
    /\ \E k \in DOMAIN eviction_log :
           \E S \in Range(eviction_log[k].sets) :
               /\ \E c \in S : c \notin DOMAIN graph
               /\ \E a \in S, b \in Hashtags \ S : Connected(a, b)

\* C19: each recorded contribution is retracted at most once over the whole
\* run: once an eviction scan has retracted the hashtag sets of an aged-out
\* timestamp, no later scan retracts a set with edges for that timestamp
\* again.
C19_RetractedAtMostOnce ==
    \A i \in DOMAIN eviction_log, j \in DOMAIN eviction_log :
        (i < j /\ eviction_log[i].timestamp = eviction_log[j].timestamp)
            => ~RetractsEdges(eviction_log[j])

\* the largest timestamp passed to update_graph so far
LargestTimestamp ==
    CHOOSE t \in Range([i \in DOMAIN tweets |-> tweets[i].timestamp]) :
        \A i \in DOMAIN tweets : tweets[i].timestamp <= t

\* C20: ledger ordering.  For any sequence of timestamps the ledger is
\* strictly increasing (so without duplicates), it is empty exactly until
\* the first update_graph call, and its last entry is the largest timestamp
\* ingested so far.
C20_LedgerOrdering ==
    /\ \A i \in 1..(Len(unique_timestamp_list) - 1) :
           unique_timestamp_list[i] < unique_timestamp_list[i + 1]
    /\ tweets = <<>> <=> unique_timestamp_list = <<>>
    /\ tweets # <<>> => newest_on_ledger = LargestTimestamp

\* out-of-order timestamps were ingested and the ledger holds several
\* entries
C20_Witness ==
    /\ AfterUpdate
    /\ ~NonDecreasing
    /\ Len(unique_timestamp_list) >= 2
    /\ LastTweet.timestamp < newest_on_ledger

\* the undirected edges of the graph: unordered pairs with a neighbor entry
UndirectedEdges == {{p[1], p[2]} : p \in NeighborEntries}

\* the values strictly between "0.00" and "1.00"
BelowOne == {Hundredths(h) : h \in 1..99}

\* C21: degree bounds.  In every reachable state with a non-empty graph the
\* graph has n >= 2 nodes, the number of neighbor entries is even and twice
\* the number of undirected edges, and it lies between n and n * (n - 1), so
\* the average degree lies between 1 and n - 1; the value returned by
\* get_graph_avg_degree_of_all_nodes is never strictly between "0.00" and
\* "1.00".
C21_DegreeBounds ==
    /\ graph # EmptyDict =>
           LET total == Cardinality(NeighborEntries)
               n == Cardinality(DOMAIN graph)
           IN  /\ n >= 2
               /\ total % 2 = 0
               /\ total = 2 * Cardinality(UndirectedEdges)
               /\ n <= total
               /\ total <= n * (n - 1)
               /\ SumOfDegrees(graph, DOMAIN graph) = total
    /\ ret \notin BelowOne

\* the average of a path of three nodes, left by an eviction, was returned
C21_Witness ==
    /\ Cardinality(DOMAIN graph) = 3
    /\ Cardinality(NeighborEntries) = 4
    /\ ret = "1.33"
    /\ eviction_log # <<>>

====
